---- MODULE Spec2Model ----
(***************************************************************************)
(* A model of app.py, the Flask translation service: the cookie-backed     *)
(* session with its `authenticated` flag, the login / logout / check-auth  *)
(* / languages / translate-chunk handlers, the require_auth decorator, the *)
(* prompt sent to the completion service and the word counts returned.     *)
(*                                                                         *)
(* Python values are modelled as follows.                                  *)
(*   - None / a value v: the sets {} and {v} (None, Some(v)).              *)
(*   - a dict (a JSON object, the session, a response body): a function    *)
(*     whose domain is the set of keys present.                            *)
(*   - a str that the code splits or splices (text, context, translation): *)
(*     a sequence of one-character strings.                                *)
(*   - an f-string result: the sequence of its literal pieces and of the   *)
(*     characters of the values spliced in, in order.                      *)
(* request.json is the parsed body: None, or a JSON object.                *)
(*                                                                         *)
(* A handler reads and writes nothing but its own request's session and    *)
(* the module-level values, which no handler assigns; the call to the      *)
(* completion service blocks the handler alone. A request is therefore one *)
(* step, the service's answer being chosen within it, and concurrency is   *)
(* the interleaving of the clients' requests. Each client sends the cookie *)
(* the last response gave it.                                              *)
(***************************************************************************)
EXTENDS Integers, Sequences, FiniteSets, TLC

VARIABLES
    session,              \* session[s]: the session dict of client s (its signed cookie)
    USERNAME,             \* os.getenv("AUTH_USERNAME"), read once at import
    PASSWORD,             \* os.getenv("AUTH_PASSWORD"), read once at import
    FLASK_ENV,            \* os.getenv('FLASK_ENV')
    AVAILABLE_LANGUAGES,  \* the module-level dict code -> display name
    req,                  \* the request handled last: client, route, cookie sent, body
    resp,                 \* the response to it: status and JSON body
    upstream,             \* the calls to client.chat.completions.create made while
                          \* handling it, each with what the service answered
    completions           \* the completions the external service can answer with

vars == <<session, USERNAME, PASSWORD, FLASK_ENV, AVAILABLE_LANGUAGES, req, resp,
          upstream, completions>>

(***************************************************************************)
(* Bounds and input sets                                                   *)
(***************************************************************************)
MaxLen == 1        \* longest request text, in characters
MaxOut == 1        \* longest completion returned by the service, in characters
WordsMaxLen == 3   \* the same two, where only the text and the completion vary
WordsMaxOut == 3

Sessions == {"A", "B"}

None == {}
Some(v) == {v}

SeqsUpTo(S, n) == UNION {[1..k -> S] : k \in 0..n}

TextChars == {"a", " "}
OutChars == {"b", "\n"}
Texts == SeqsUpTo(TextChars, MaxLen)
Contexts == {<<>>, <<"c">>}
Codes == {"czech", "klingon"}
Completions == SeqsUpTo(OutChars, MaxOut)

\* The environments the service is started in: AUTH_USERNAME, AUTH_PASSWORD, FLASK_ENV.
Environments ==
    { [u |-> None,          p |-> None,           env |-> Some("development")],
      [u |-> None,          p |-> None,           env |-> Some("production")],
      [u |-> None,          p |-> None,           env |-> None],
      [u |-> Some("alice"), p |-> Some("secret"), env |-> Some("production")],
      [u |-> Some("alice"), p |-> Some("secret"), env |-> Some("development")],
      [u |-> Some("admin"), p |-> Some("admin"),  env |-> Some("production")],
      [u |-> Some("alice"), p |-> None,           env |-> Some("development")],
      [u |-> Some(""),      p |-> Some("secret"), env |-> Some("production")] }

\* JSON objects: each key is absent or holds one of its values.
EmptyDict == [k \in {} |-> TRUE]
Field(k, V) == {EmptyDict} \cup {[x \in {k} |-> v] : v \in V}
Merge(f, g) == [k \in DOMAIN f \cup DOMAIN g |-> IF k \in DOMAIN f THEN f[k] ELSE g[k]]

LoginObjects ==
    { Merge(u, p) : u \in Field("username", {"admin", "alice"}),
                    p \in Field("password", {"admin", "secret"}) }
LoginBodies == {None} \cup {Some(d) : d \in LoginObjects}

ChunkObjects ==
    { Merge(Merge(t, l), c) : t \in Field("text", Texts),
                              l \in Field("target_language", Codes),
                              c \in Field("context", Contexts) }
ChunkBodies == {None} \cup {Some(d) : d \in ChunkObjects}

\* Requests that differ in their text alone: a registry code, no context.
WordTexts == SeqsUpTo(TextChars, WordsMaxLen)
WordCompletions == SeqsUpTo(OutChars, WordsMaxOut)
WordBodies == {Some([text |-> t, target_language |-> "czech"]) : t \in WordTexts}

\* What the completion service can do with a call: answer with a completion, raise
\* (timeout, connection or provider error), or answer with a malformed response.
Outcomes ==
    { [kind |-> "ok", content |-> c] : c \in completions }
    \cup { [kind |-> "raise", message |-> m] : m \in {"Request timed out.", "Connection error."} }
    \cup { [kind |-> "no_choices"], [kind |-> "null_content"] }

(***************************************************************************)
(* Python helpers                                                          *)
(***************************************************************************)
\* bool(x) of an optional str: None and "" are falsy.
Truthy(x) == x # None /\ x # Some("")

\* dict.get(k): the value, or None.
Get(d, k) == IF k \in DOMAIN d THEN Some(d[k]) ELSE None

\* bool(data) of request.json: None and {} are falsy.
NonEmpty(data) == \E d \in data : DOMAIN d # {}

TheObject(data) == CHOOSE d \in data : TRUE

Whitespace == {" ", "\t", "\n", "\r", "\f"}

\* str.split(): the maximal runs of non-whitespace characters, in order.
RECURSIVE SplitFrom(_, _, _)
SplitFrom(s, word, words) ==
    IF s = <<>>
    THEN IF word = <<>> THEN words ELSE Append(words, word)
    ELSE IF Head(s) \in Whitespace
         THEN SplitFrom(Tail(s), <<>>, IF word = <<>> THEN words ELSE Append(words, word))
         ELSE SplitFrom(Tail(s), Append(word, Head(s)), words)

\* Mutant of split: str.split(" "), which cuts at every single space and keeps the
\* empty pieces.
RECURSIVE SplitAtSpaces(_, _, _)
SplitAtSpaces(s, word, words) ==
    IF s = <<>>
    THEN Append(words, word)
    ELSE IF Head(s) = " "
         THEN SplitAtSpaces(Tail(s), <<>>, Append(words, word))
         ELSE SplitAtSpaces(Tail(s), Append(word, Head(s)), words)

split_SingleSpace(s) == SplitAtSpaces(s, <<>>, <<>>)

split(s) == SplitFrom(s, <<>>, <<>>)

Reply(status, body, sess, calls) ==
    [status |-> status, body |-> body, session |-> sess, calls |-> calls]

(***************************************************************************)
(* The handlers, as functions of the session dict and the request body     *)
(***************************************************************************)
InitialLanguages ==
    [spanish |-> "Spanish", french |-> "French", german |-> "German",
     italian |-> "Italian", portuguese |-> "Portuguese", czech |-> "Czech"]

IsAuthenticated(sess) == "authenticated" \in DOMAIN sess /\ sess["authenticated"]

index(sess) == Reply(200, [html |-> "index.html"], sess, <<>>)

\* Mutant of login: the admin/admin fallback is accepted whenever no pair is
\* configured, whatever FLASK_ENV is.
login_FallbackAnywhere(sess, data) ==
    LET granted == [k \in DOMAIN sess \cup {"authenticated"} |->
                       IF k = "authenticated" THEN TRUE ELSE sess[k]]
    IN  IF ~Truthy(USERNAME) \/ ~Truthy(PASSWORD)
        THEN IF NonEmpty(data)
                /\ Get(TheObject(data), "username") = Some("admin")
                /\ Get(TheObject(data), "password") = Some("admin")
             THEN Reply(200, [success |-> TRUE], granted, <<>>)
             ELSE Reply(401, [error |-> "Authentication not properly configured"], sess, <<>>)
        ELSE IF NonEmpty(data)
                /\ Get(TheObject(data), "username") = USERNAME
                /\ Get(TheObject(data), "password") = PASSWORD
             THEN Reply(200, [success |-> TRUE], granted, <<>>)
             ELSE Reply(401, [error |-> "Invalid credentials"], sess, <<>>)

\* Mutant of login: a rejected attempt also drops the session's flag.
login_FailureLogsOut(sess, data) ==
    LET granted == [k \in DOMAIN sess \cup {"authenticated"} |->
                       IF k = "authenticated" THEN TRUE ELSE sess[k]]
        dropped == [k \in DOMAIN sess \ {"authenticated"} |-> sess[k]]
    IN  IF ~Truthy(USERNAME) \/ ~Truthy(PASSWORD)
        THEN IF FLASK_ENV = Some("development")
                /\ NonEmpty(data)
                /\ Get(TheObject(data), "username") = Some("admin")
                /\ Get(TheObject(data), "password") = Some("admin")
             THEN Reply(200, [success |-> TRUE], granted, <<>>)
             ELSE Reply(401, [error |-> "Authentication not properly configured"], dropped, <<>>)
        ELSE IF NonEmpty(data)
                /\ Get(TheObject(data), "username") = USERNAME
                /\ Get(TheObject(data), "password") = PASSWORD
             THEN Reply(200, [success |-> TRUE], granted, <<>>)
             ELSE Reply(401, [error |-> "Invalid credentials"], dropped, <<>>)

login(sess, data) ==
    LET configured_username == USERNAME
        configured_password == PASSWORD
        granted == [k \in DOMAIN sess \cup {"authenticated"} |->
                       IF k = "authenticated" THEN TRUE ELSE sess[k]]
    IN  IF ~Truthy(configured_username) \/ ~Truthy(configured_password)
        THEN IF FLASK_ENV = Some("development")
                /\ NonEmpty(data)
                /\ Get(TheObject(data), "username") = Some("admin")
                /\ Get(TheObject(data), "password") = Some("admin")
             THEN Reply(200, [success |-> TRUE], granted, <<>>)
             ELSE Reply(401, [error |-> "Authentication not properly configured"], sess, <<>>)
        ELSE IF NonEmpty(data)
                /\ Get(TheObject(data), "username") = configured_username
                /\ Get(TheObject(data), "password") = configured_password
             THEN Reply(200, [success |-> TRUE], granted, <<>>)
             ELSE Reply(401, [error |-> "Invalid credentials"], sess, <<>>)

\* Mutant of logout: answers success and leaves the session as it is.
logout_KeepsFlag(sess) == Reply(200, [success |-> TRUE], sess, <<>>)

logout(sess) ==
    Reply(200, [success |-> TRUE], [k \in DOMAIN sess \ {"authenticated"} |-> sess[k]], <<>>)

check_auth(sess) ==
    IF IsAuthenticated(sess)
    THEN Reply(200, [authenticated |-> TRUE], sess, <<>>)
    ELSE Reply(200, [authenticated |-> FALSE], sess, <<>>)

get_languages(sess) == Reply(200, AVAILABLE_LANGUAGES, sess, <<>>)

\* The user message: line 109 is line 111 behind "Previous translation context: {context}\n\n".
Instruction(name, text) ==
    <<"Please translate the following text into ", name,
      ".\nEnsure accuracy and fidelity to the original, but do not copy sentence structure directly if a different phrasing is more natural.\nInstead of translating word-for-word, rewrite each sentence naturally so that a native speaker of ",
      name,
      " would say it this way.\nUse idiomatic expressions, adjust sentence flow, and restructure phrases where necessary to make the text feel completely fluent and natural.\nPreserve paragraph structure, line breaks, and formatting exactly as in the source text.\nHere is the text:\n">>
    \o text

\* Mutant of BuildPrompt: the context branch is taken whether or not there is a context.
BuildPrompt_AlwaysContext(text, name, context) ==
    <<"Previous translation context: ">> \o context \o <<"\n\n">> \o Instruction(name, text)

BuildPrompt(text, name, context) ==
    IF context # <<>>
    THEN <<"Previous translation context: ">> \o context \o <<"\n\n">> \o Instruction(name, text)
    ELSE Instruction(name, text)

SystemMessage(name) ==
    <<"You are a professional literary translator with expertise in both the source language and ", name,
      ".\nYour goal is to create a fluent, natural, and idiomatic translation that reads as if it were originally written in ", name,
      ".\nEnsure accuracy and fidelity to the original, but do not copy sentence structure from the source text if a different structure sounds more natural.\nInstead of translating word-for-word, rewrite each sentence in the way a native speaker of ", name,
      " would naturally express it.\nAdapt idioms, expressions, and sentence structures where necessary to make the translation sound natural and fluent in ", name,
      ".\n\nRephrase sentences freely when necessary to sound natural in ", name,
      ". If a sentence structure is too English-like, rewrite it in the way a native speaker would phrase it. Focus on idiomatic language in dialogues and avoid direct word-for-word translations. Read every sentence as if you were a native ", name,
      " author and adjust phrasing accordingly.\n\nPreserve all paragraph breaks, line breaks, and formatting exactly as in the original. Do not add, remove, or merge paragraphs.\nYour task is to translate meaningfully and fluently, not mechanically.">>

Timeout == 280

\* The keyword arguments of client.chat.completions.create.
Completion(target_language, prompt) ==
    [model |-> "gpt-4.1",
     messages |-> << [role |-> "system", content |-> SystemMessage(AVAILABLE_LANGUAGES[target_language])],
                     [role |-> "user", content |-> prompt] >>,
     temperature |-> "0.3",
     timeout |-> Timeout]

\* client.chat.completions.create(...): every way the completion service can answer.
create(call) == Outcomes

\* Mutant of Respond: a failed call is reported with the word count already known.
Respond_PartialResult(sess, text, call, outcome) ==
    LET calls == << [call |-> call, outcome |-> outcome] >>
    IN  IF outcome.kind = "ok"
        THEN Reply(200,
                   [translated_text |-> outcome.content,
                    original_length |-> Len(split(text)),
                    translated_length |-> Len(split(outcome.content))],
                   sess, calls)
        ELSE Reply(500,
                   [error |-> IF outcome.kind = "raise" THEN outcome.message
                              ELSE "malformed response",
                    original_length |-> Len(split(text))],
                   sess, calls)

\* Lines 124-136: the reply once the service has answered `outcome` to `call`.
Respond(sess, text, call, outcome) ==
    LET calls == << [call |-> call, outcome |-> outcome] >>
    IN  CASE outcome.kind = "raise" ->
                Reply(500, [error |-> outcome.message], sess, calls)
          [] outcome.kind = "no_choices" ->
                Reply(500, [error |-> "list index out of range"], sess, calls)
          [] outcome.kind = "null_content" ->
                Reply(500, [error |-> "'NoneType' object has no attribute 'split'"], sess, calls)
          [] outcome.kind = "ok" ->
                LET translated_text == outcome.content
                IN  Reply(200,
                          [translated_text |-> translated_text,
                           original_length |-> Len(split(text)),
                           translated_length |-> Len(split(translated_text))],
                          sess, calls)

\* Mutant of translate_chunk: the registry check comes before the missing-parameter check.
translate_chunk_LanguageFirst(sess, data) ==
    IF NonEmpty(data)
       /\ "target_language" \in DOMAIN TheObject(data)
       /\ TheObject(data)["target_language"] \notin DOMAIN AVAILABLE_LANGUAGES
    THEN {Reply(400, [error |-> "Unsupported target language"], sess, <<>>)}
    ELSE IF ~NonEmpty(data)
            \/ "text" \notin DOMAIN TheObject(data)
            \/ "target_language" \notin DOMAIN TheObject(data)
    THEN {Reply(400, [error |-> "Missing required parameters"], sess, <<>>)}
    ELSE
    LET text == TheObject(data)["text"]
        target_language == TheObject(data)["target_language"]
        context == IF "context" \in DOMAIN TheObject(data) THEN TheObject(data)["context"] ELSE <<>>
        call == Completion(target_language,
                           BuildPrompt(text, AVAILABLE_LANGUAGES[target_language], context))
    IN  { Respond(sess, text, call, outcome) : outcome \in create(call) }

\* Mutant of translate_chunk: no registry check; an unknown code is passed on as the
\* name of the language.
translate_chunk_AnyLanguage(sess, data) ==
    IF ~NonEmpty(data)
       \/ "text" \notin DOMAIN TheObject(data)
       \/ "target_language" \notin DOMAIN TheObject(data)
    THEN {Reply(400, [error |-> "Missing required parameters"], sess, <<>>)}
    ELSE
    LET text == TheObject(data)["text"]
        target_language == TheObject(data)["target_language"]
        context == IF "context" \in DOMAIN TheObject(data) THEN TheObject(data)["context"] ELSE <<>>
        name == IF target_language \in DOMAIN AVAILABLE_LANGUAGES
                THEN AVAILABLE_LANGUAGES[target_language] ELSE target_language
        call == [model |-> "gpt-4.1",
                 messages |-> << [role |-> "system", content |-> SystemMessage(name)],
                                 [role |-> "user", content |-> BuildPrompt(text, name, context)] >>,
                 temperature |-> "0.3",
                 timeout |-> Timeout]
    IN  { Respond(sess, text, call, outcome) : outcome \in create(call) }

\* The replies translate_chunk can give to `data`: one, or one per answer of the service.
translate_chunk(sess, data) ==
    IF ~NonEmpty(data)
       \/ "text" \notin DOMAIN TheObject(data)
       \/ "target_language" \notin DOMAIN TheObject(data)
    THEN {Reply(400, [error |-> "Missing required parameters"], sess, <<>>)}
    ELSE
    LET text == TheObject(data)["text"]
        target_language == TheObject(data)["target_language"]
        context == IF "context" \in DOMAIN TheObject(data) THEN TheObject(data)["context"] ELSE <<>>
    IN  IF target_language \notin DOMAIN AVAILABLE_LANGUAGES
        THEN {Reply(400, [error |-> "Unsupported target language"], sess, <<>>)}
        ELSE
        LET prompt == BuildPrompt(text, AVAILABLE_LANGUAGES[target_language], context)
            call == Completion(target_language, prompt)
        IN  { Respond(sess, text, call, outcome) : outcome \in create(call) }

\* Mutant of require_auth: the route is bound to the undecorated handler.
require_auth_Undecorated(sess, data) == translate_chunk(sess, data)

\* require_auth(translate_chunk): the decorated handler bound to /translate-chunk.
require_auth(sess, data) ==
    IF ~IsAuthenticated(sess)
    THEN {Reply(401, [error |-> "Authentication required"], sess, <<>>)}
    ELSE translate_chunk(sess, data)

(***************************************************************************)
(* The service: one action per route                                       *)
(***************************************************************************)
\* Mutant of SaveSession: one flag for the whole process.
SaveSession_Global(s, sess) == [t \in Sessions |-> sess]

\* Flask's session proxy: the handler's session dict is the requesting client's own.
SaveSession(s, sess) == [session EXCEPT ![s] = sess]

\* Client s sends `data` to `route` with its cookie; the handler's reply `r` is sent back.
Serve(s, route, data, r) ==
    /\ req' = [sid |-> s, route |-> route, cookie |-> session[s], data |-> data]
    /\ resp' = [status |-> r.status, body |-> r.body]
    /\ session' = SaveSession(s, r.session)
    /\ upstream' = r.calls
    /\ UNCHANGED <<USERNAME, PASSWORD, FLASK_ENV, AVAILABLE_LANGUAGES, completions>>

Index(s) == Serve(s, "/", None, index(session[s]))

Login(s, data) == Serve(s, "/login", data, login(session[s], data))

Logout(s) == Serve(s, "/logout", None, logout(session[s]))

CheckAuth(s) == Serve(s, "/check-auth", None, check_auth(session[s]))

GetLanguages(s) == Serve(s, "/languages", None, get_languages(session[s]))

TranslateChunk(s, data) ==
    \E r \in require_auth(session[s], data) : Serve(s, "/translate-chunk", data, r)

Init ==
    /\ session = [s \in Sessions |-> EmptyDict]
    /\ \E e \in Environments : USERNAME = e.u /\ PASSWORD = e.p /\ FLASK_ENV = e.env
    /\ AVAILABLE_LANGUAGES = InitialLanguages
    /\ req = [sid |-> "A", route |-> "", cookie |-> EmptyDict, data |-> None]
    /\ resp = [status |-> 0, body |-> EmptyDict]
    /\ upstream = <<>>
    /\ completions = Completions

Next ==
    \/ \E s \in Sessions : Index(s)
    \/ \E s \in Sessions, data \in LoginBodies : Login(s, data)
    \/ \E s \in Sessions : Logout(s)
    \/ \E s \in Sessions : CheckAuth(s)
    \/ \E s \in Sessions : GetLanguages(s)
    \/ \E s \in Sessions, data \in ChunkBodies : TranslateChunk(s, data)

Spec == Init /\ [][Next]_vars

\* One client of a service with configured credentials, sending requests that differ
\* in their text alone to a completion service with longer answers.
InitWords ==
    /\ session = [s \in Sessions |-> EmptyDict]
    /\ USERNAME = Some("alice") /\ PASSWORD = Some("secret") /\ FLASK_ENV = Some("production")
    /\ AVAILABLE_LANGUAGES = InitialLanguages
    /\ req = [sid |-> "A", route |-> "", cookie |-> EmptyDict, data |-> None]
    /\ resp = [status |-> 0, body |-> EmptyDict]
    /\ upstream = <<>>
    /\ completions = WordCompletions

NextWords ==
    \/ Login("A", Some([username |-> "alice", password |-> "secret"]))
    \/ \E data \in WordBodies : TranslateChunk("A", data)

SpecWords == InitWords /\ [][NextWords]_vars

(***************************************************************************)
(* Vocabulary of the properties, stated on the request, the response and   *)
(* the calls, not through the handlers' own definitions                    *)
(***************************************************************************)
\* The session state: Authenticated iff the flag is present and true.
FlagSet(cookie) == \E k \in DOMAIN cookie : k = "authenticated" /\ cookie[k] = TRUE

Has(data, k) == \E d \in data : k \in DOMAIN d
Value(data, k) == (CHOOSE d \in data : TRUE)[k]

SixLanguages ==
    { <<"spanish", "Spanish">>, <<"french", "French">>, <<"german", "German">>,
      <<"italian", "Italian">>, <<"portuguese", "Portuguese">>, <<"czech", "Czech">> }
SixCodes == {p[1] : p \in SixLanguages}

IsTranslate == req.route = "/translate-chunk"
IsLogin == req.route = "/login"
ErrorOnly(body) == DOMAIN body = {"error"}

\* The request carries both parameters; its context is "" when it carries none.
Complete(data) == Has(data, "text") /\ Has(data, "target_language")
ContextOf(data) == IF Has(data, "context") THEN Value(data, "context") ELSE <<>>

\* The user message of the call made for the request.
PromptSent == upstream[1].call.messages[2].content
ContinuityPreamble == "Previous translation context: "

\* The whitespace-separated words of s: the positions where a word starts.
WordStarts(s) ==
    { i \in 1..Len(s) : s[i] \notin Whitespace /\ (i = 1 \/ s[i - 1] \in Whitespace) }

NoPairConfigured == USERNAME \in {None, Some("")} \/ PASSWORD \in {None, Some("")}
Supplies(data, username, password) ==
    /\ Has(data, "username") /\ Value(data, "username") = username
    /\ Has(data, "password") /\ Value(data, "password") = password
SuppliesConfiguredPair ==
    \E u \in USERNAME, p \in PASSWORD : Supplies(req.data, u, p)

\* The registry holds the six pairs and nothing else.
RegistryIsTheSix ==
    /\ DOMAIN AVAILABLE_LANGUAGES = SixCodes
    /\ \A p \in SixLanguages : AVAILABLE_LANGUAGES[p[1]] = p[2]

\* Every call made for the request names, in its system and its user message, the
\* display name the six pairs give to the request's code.
CallsNameRegistryLanguage ==
    \A i \in 1..Len(upstream) :
        /\ Has(req.data, "target_language")
        /\ \E p \in SixLanguages :
              /\ p[1] = Value(req.data, "target_language")
              /\ upstream[i].call.messages[1].content[2] = p[2]
              /\ upstream[i].call.messages[2].content[Len(ContextOf(req.data))
                    + (IF ContextOf(req.data) = <<>> THEN 2 ELSE 4)] = p[2]

\* What /login with the configured pair, /check-auth and /logout answer, and the
\* session's state after them.
RoutesAnswerTheSessionState ==
    /\ (IsLogin /\ ~NoPairConfigured /\ SuppliesConfiguredPair)
           => /\ resp = [status |-> 200, body |-> [success |-> TRUE]]
              /\ FlagSet(session[req.sid])
    /\ req.route = "/check-auth"
           => resp = [status |-> 200, body |-> [authenticated |-> FlagSet(session[req.sid])]]
    /\ req.route = "/logout"
           => /\ resp = [status |-> 200, body |-> [success |-> TRUE]]
              /\ ~FlagSet(session[req.sid])

(***************************************************************************)
(* C1. A POST /translate-chunk from a session that is not Authenticated    *)
(* is answered 401 with a body holding only `error`, whatever its body     *)
(* is: no 400 is returned and the completion service is not called.        *)
(***************************************************************************)
C1_GateRejectsUnauthenticated ==
    (IsTranslate /\ ~FlagSet(req.cookie))
        => /\ resp.status = 401
           /\ ErrorOnly(resp.body)
           /\ upstream = <<>>

\* An unauthenticated request that would pass both validations is turned away.
C1_Witness ==
    /\ IsTranslate /\ ~FlagSet(req.cookie)
    /\ Complete(req.data) /\ Value(req.data, "target_language") \in SixCodes
    /\ resp.status = 401

(***************************************************************************)
(* C2. A login with the configured credentials answers success and leaves  *)
(* the session Authenticated; a session stops being Authenticated only by  *)
(* its own logout, and check-auth reports the session's state, so it       *)
(* reports true from the login until a logout; a logout answers success    *)
(* and leaves the session Unauthenticated from any state, an               *)
(* Unauthenticated one included.                                           *)
(***************************************************************************)
C2_LoginLogoutCheckAuth ==
    [][ /\ RoutesAnswerTheSessionState'
        /\ \A s \in Sessions :
              (FlagSet(session[s]) /\ ~FlagSet(session'[s]))
                  => (req'.route = "/logout" /\ req'.sid = s)
        /\ req'.route = "/check-auth" => req'.cookie = session[req'.sid]
      ]_vars

\* A logout sent by a session that is already Unauthenticated, after it logged in and
\* out before (the other session's login shows the configuration accepts logins).
C2_Witness ==
    /\ req.route = "/logout" /\ ~FlagSet(req.cookie)
    /\ resp.status = 200 /\ ~FlagSet(session[req.sid])
    /\ \E s \in Sessions : FlagSet(session[s])

(***************************************************************************)
(* C3. The flag is per session: a request of one session never changes     *)
(* another session's flag, and whether a session's translate-chunk is let  *)
(* through depends on that session's own flag alone.                       *)
(***************************************************************************)
C3_SessionsIndependent ==
    [][ /\ \A s \in Sessions : req'.sid # s => session'[s] = session[s]
        /\ req'.route = "/translate-chunk"
              => (resp'.status = 401 <=> ~FlagSet(session[req'.sid]))
      ]_vars

\* One session has just logged in while the other is still Unauthenticated.
C3_Witness ==
    \E a, b \in Sessions :
        /\ a # b
        /\ req.sid = a /\ IsLogin /\ resp.status = 200
        /\ FlagSet(session[a]) /\ ~FlagSet(session[b])

(***************************************************************************)
(* C4. For an authenticated session, a translate-chunk request with no     *)
(* body, without `text` or without `target_language` is answered 400       *)
(* "Missing required parameters" and the completion service is not called; *)
(* this holds too when the request names an unknown language code.         *)
(***************************************************************************)
C4_MissingParameters ==
    (IsTranslate /\ FlagSet(req.cookie) /\ ~Complete(req.data))
        => /\ resp = [status |-> 400, body |-> [error |-> "Missing required parameters"]]
           /\ upstream = <<>>

\* No text and an unknown code: reported as missing parameters.
C4_Witness ==
    /\ IsTranslate /\ FlagSet(req.cookie)
    /\ ~Has(req.data, "text")
    /\ Has(req.data, "target_language") /\ Value(req.data, "target_language") \notin SixCodes
    /\ resp.status = 400 /\ resp.body = [error |-> "Missing required parameters"]

(***************************************************************************)
(* C5, as stated. The registry is the six pairs, every translate-chunk     *)
(* request whose code is not one of the six is answered 400 "Unsupported   *)
(* target language", and the service is only called with a registry        *)
(* language. "Every request" is read as every request of an authenticated  *)
(* session, the reading that asks least of the code.                       *)
(***************************************************************************)
C5_Original ==
    /\ RegistryIsTheSix
    /\ (IsTranslate /\ FlagSet(req.cookie) /\ Has(req.data, "target_language")
           /\ Value(req.data, "target_language") \notin SixCodes)
          => resp = [status |-> 400, body |-> [error |-> "Unsupported target language"]]
    /\ CallsNameRegistryLanguage

(***************************************************************************)
(* C5, amended. The registry is the six pairs; a translate-chunk request   *)
(* with an unknown code is never accepted (never answered 200, never       *)
(* passed to the service); it is answered 400 "Unsupported target          *)
(* language" when it comes from an authenticated session and carries       *)
(* `text`; the service is only called with a registry language.            *)
(***************************************************************************)
C5_UnknownCodeNeverAccepted ==
    /\ RegistryIsTheSix
    /\ (IsTranslate /\ Has(req.data, "target_language")
           /\ Value(req.data, "target_language") \notin SixCodes)
          => /\ resp.status \in {400, 401}
             /\ ErrorOnly(resp.body)
             /\ upstream = <<>>
             /\ (FlagSet(req.cookie) /\ Has(req.data, "text"))
                   => resp = [status |-> 400, body |-> [error |-> "Unsupported target language"]]
    /\ CallsNameRegistryLanguage

\* An authenticated, otherwise complete request naming an unknown code.
C5_Witness ==
    /\ IsTranslate /\ FlagSet(req.cookie) /\ Complete(req.data)
    /\ Value(req.data, "target_language") \notin SixCodes
    /\ resp.status = 400 /\ resp.body = [error |-> "Unsupported target language"]

(***************************************************************************)
(* C6. When the call to the completion service fails (it raises, or its    *)
(* response has no choice or no content), the request ends with 500 and a  *)
(* body holding only `error`, which is the service's message when it       *)
(* raised; the call was made once; no request makes more than one call;    *)
(* and the same request, sent again, is served.                            *)
(***************************************************************************)
C6_UpstreamFailure ==
    /\ Len(upstream) <= 1
    /\ \A i \in 1..Len(upstream) :
          upstream[i].outcome.kind # "ok"
              => /\ resp.status = 500
                 /\ ErrorOnly(resp.body)
                 /\ upstream[i].outcome.kind = "raise"
                       => resp.body["error"] = upstream[i].outcome.message
                 /\ ENABLED TranslateChunk(req.sid, req.data)

\* The service timed out.
C6_Witness ==
    /\ Len(upstream) = 1
    /\ upstream[1].outcome = [kind |-> "raise", message |-> "Request timed out."]
    /\ resp.status = 500

(***************************************************************************)
(* C7. With no credential pair configured, a login as admin/admin succeeds *)
(* in development mode and leaves the session Authenticated, and fails in  *)
(* any other mode with 401 "Authentication not properly configured",       *)
(* leaving the session as it was. With a pair configured, a login succeeds *)
(* exactly when it supplies that username and that password, and any other *)
(* login fails with 401 "Invalid credentials".                             *)
(***************************************************************************)
C7_LoginOutcomes ==
    IsLogin =>
        /\ (NoPairConfigured /\ Supplies(req.data, "admin", "admin"))
              => IF FLASK_ENV = Some("development")
                 THEN /\ resp = [status |-> 200, body |-> [success |-> TRUE]]
                      /\ FlagSet(session[req.sid])
                 ELSE /\ resp = [status |-> 401,
                                 body |-> [error |-> "Authentication not properly configured"]]
                      /\ session[req.sid] = req.cookie
        /\ ~NoPairConfigured
              => IF SuppliesConfiguredPair
                 THEN resp = [status |-> 200, body |-> [success |-> TRUE]]
                 ELSE resp = [status |-> 401, body |-> [error |-> "Invalid credentials"]]

\* The development fallback: admin/admin accepted where nothing is configured.
C7_Witness ==
    /\ IsLogin /\ NoPairConfigured /\ FLASK_ENV = Some("development")
    /\ Supplies(req.data, "admin", "admin")
    /\ resp.status = 200 /\ FlagSet(session[req.sid])

(***************************************************************************)
(* C8. Every request that passes the gate and both validations is sent to  *)
(* the service, and the user message sent starts with the continuity       *)
(* preamble followed by the caller's context if and only if the request's  *)
(* context is non-empty; otherwise it is the instruction alone. The        *)
(* message is determined by the current request's text, code and context.  *)
(***************************************************************************)
C8_PreambleIffContext ==
    (IsTranslate /\ FlagSet(req.cookie) /\ Complete(req.data)
        /\ Value(req.data, "target_language") \in SixCodes)
        => /\ Len(upstream) = 1
           /\ LET context == ContextOf(req.data)
                  name == CHOOSE n \in {p[2] : p \in {q \in SixLanguages :
                                     q[1] = Value(req.data, "target_language")}} : TRUE
                  bare == Instruction(name, Value(req.data, "text"))
              IN  /\ (ContinuityPreamble \in {PromptSent[i] : i \in 1..Len(PromptSent)})
                        <=> context # <<>>
                  /\ context # <<>>
                        => PromptSent = <<ContinuityPreamble>> \o context \o <<"\n\n">> \o bare
                  /\ context = <<>> => PromptSent = bare

\* A request with a context, and the preamble in what was sent.
C8_Witness ==
    /\ IsTranslate /\ Len(upstream) = 1
    /\ ContextOf(req.data) = <<"c">>
    /\ PromptSent[1] = ContinuityPreamble /\ PromptSent[2] = "c"

(***************************************************************************)
(* C9. A translate-chunk answered 200 holds exactly translated_text,       *)
(* original_length and translated_length: the text is the completion the   *)
(* service returned, original_length the number of whitespace-separated    *)
(* words of the request's text, translated_length that of the completion;  *)
(* a text of two words separated by a space gives original_length 2.       *)
(***************************************************************************)
C9_WordCounts ==
    (IsTranslate /\ resp.status = 200)
        => /\ DOMAIN resp.body = {"translated_text", "original_length", "translated_length"}
           /\ Len(upstream) = 1 /\ upstream[1].outcome.kind = "ok"
           /\ resp.body["translated_text"] = upstream[1].outcome.content
           /\ resp.body["original_length"] = Cardinality(WordStarts(Value(req.data, "text")))
           /\ resp.body["translated_length"] = Cardinality(WordStarts(upstream[1].outcome.content))
           /\ Value(req.data, "text") = <<"a", " ", "a">> => resp.body["original_length"] = 2

\* "a a" translated to two words on two lines.
C9_Witness ==
    /\ IsTranslate /\ resp.status = 200
    /\ Value(req.data, "text") = <<"a", " ", "a">>
    /\ resp.body["translated_text"] = <<"b", "\n", "b">>
    /\ resp.body["original_length"] = 2 /\ resp.body["translated_length"] = 2

(***************************************************************************)
(* C10. A session's dict changes only by that session's successful login   *)
(* (to Authenticated) or logout (to Unauthenticated): every other request, *)
(* a failed login on an Authenticated session included, leaves it as it    *)
(* was.                                                                    *)
(***************************************************************************)
C10_OnlyLoginAndLogoutWrite ==
    [][ \A s \in Sessions :
           session'[s] # session[s]
               => /\ req'.sid = s
                  /\ \/ req'.route = "/login" /\ resp'.status = 200 /\ FlagSet(session'[s])
                     \/ req'.route = "/logout" /\ ~FlagSet(session'[s])
      ]_vars

\* A rejected login on an Authenticated session, which stays Authenticated.
C10_Witness ==
    /\ IsLogin /\ resp.status = 401
    /\ FlagSet(req.cookie) /\ FlagSet(session[req.sid])

====
